---- MODULE Spec2Model ----
(***************************************************************************)
(* A model of jslink's module dependency graph (src/src/collection.js and  *)
(* the string helper of src/src/lib.js).                                   *)
(*                                                                         *)
(* JavaScript values are modelled as follows.                              *)
(*   - A string is a sequence of one-character strings, so that trimming   *)
(*     is computed and not assumed.  The value `undefined` is Undefined,   *)
(*     which no sequence of characters equals.                             *)
(*   - A Module object is a heap cell.  Its reference is the pair          *)
(*     <<collection id, name>> of the collection whose get() allocated it  *)
(*     and the name it was constructed with; every field that holds a      *)
(*     Module in the source holds such a reference here.                   *)
(*   - A JavaScript object used as a map keeps insertion order: `modules`, *)
(*     `requires` and `dependants` are sequences of references, and the    *)
(*     key of an entry is the referenced module's name (the source keys    *)
(*     them by module.toString(), which returns the name).                 *)
(*   - A deleted or never-set flag is FALSE; a never-set `index` is        *)
(*     NoIndex.                                                            *)
(* Names are drawn from strings that are neither integer-like nor the name *)
(* of a property every JavaScript object inherits.                         *)
(***************************************************************************)
EXTENDS Integers, Sequences, FiniteSets, TLC

VARIABLES heap, cols, sinceClone, ret

vars == <<heap, cols, sinceClone, ret>>

(***************************************************************************)
(* Values                                                                  *)
(***************************************************************************)
Undefined == <<"undefined">>

SPC == " "

NoIndex == -1

NoRef == <<0, <<>>>>

None == "none"

TypeError == "TypeError"

DuplicateDefinition == "Duplicate definition"

SelfDependency == "cannot depend on itself"

DuplicateEdge == "already marked as requirement"

CyclicDependency == "Cyclic dependency error"

EmptyMap == [k \in {} |-> k]

RECURSIVE TrimLeft(_)
TrimLeft(s) == IF s # <<>> /\ Head(s) = SPC THEN TrimLeft(Tail(s)) ELSE s

RECURSIVE TrimRight(_)
TrimRight(s) == IF s # <<>> /\ s[Len(s)] = SPC THEN TrimRight(SubSeq(s, 1, Len(s) - 1)) ELSE s

trim(s) == TrimRight(TrimLeft(s))

\* lib.stringLike throws on a falsy argument: undefined or the empty string.
stringLikeThrows(str) == str = Undefined \/ str = <<>>

stringLike(str) == trim(str)

(***************************************************************************)
(* Objects                                                                 *)
(***************************************************************************)
\* The Module constructor throws on a name lib.stringLike rejects or trims
\* to nothing.
ModuleThrows(name) == stringLikeThrows(name) \/ stringLike(name) = <<>>

\* The fields the Module constructor sets, given a name and no source.
Module(name) ==
    [name |-> stringLike(name), requires |-> <<>>, numberOfRequirements |-> 0,
     dependants |-> <<>>, numberOfDependants |-> 0, exports |-> <<>>,
     source |-> Undefined, index |-> NoIndex, indexing |-> FALSE,
     sorting |-> FALSE, topologicalMarker |-> FALSE]

ModuleCollection ==
    [modules |-> <<>>, numberOfModules |-> 0, sources |-> EmptyMap,
     dependencies |-> <<>>, numberOfDependencies |-> 0]

\* A call in progress on collection `id`: the heap, the collection's own
\* fields, and how the call ended so far (err = None: no exception).
Start(h, col, id) == [h |-> h, col |-> col, id |-> id, err |-> None, val |-> NoRef]

Throw(S, e) == [S EXCEPT !.err = e, !.val = NoRef]

Return(S, v) == [S EXCEPT !.err = None, !.val = v]

\* obj[key] for a map of modules: the entries whose key is `key`.
Entries(h, map, key) == {i \in 1..Len(map) : h[map[i]].name = key}

HasKey(h, map, key) == Entries(h, map, key) # {}

Lookup(h, map, key) == map[CHOOSE i \in Entries(h, map, key) : TRUE]

(***************************************************************************)
(* Module.prototype                                                        *)
(***************************************************************************)
defined(h, this) == h[this].source # Undefined

\* define without the redefinition check.
defineOverwrite(S, this, source) ==
    IF stringLikeThrows(source) THEN Throw(S, TypeError)
    ELSE Return([S EXCEPT !.h[this].source = stringLike(source)], this)

define(S, this, source) ==
    IF defined(S.h, this) THEN Throw(S, DuplicateDefinition)
    ELSE IF stringLikeThrows(source) THEN Throw(S, TypeError)
    ELSE Return([S EXCEPT !.h[this].source = stringLike(source)], this)

\* What addExport returns: `module`, which is no variable of the method and
\* so the CommonJS module object of collection.js.
CommonJsModule == <<0, <<"module">>>>

\* addExport keeping a tag that is already there.
addExportRepeated(S, this, meta) ==
    LET tag == IF meta = Undefined \/ meta = <<>> THEN S.h[this].name ELSE meta
    IN  Return([S EXCEPT !.h[this].exports = Append(@, tag)], CommonJsModule)

addExport(S, this, meta) ==
    LET tag == IF meta = Undefined \/ meta = <<>> THEN S.h[this].name ELSE meta
    IN  IF \E i \in 1..Len(S.h[this].exports) : S.h[this].exports[i] = tag
        THEN Return(S, CommonJsModule)
        ELSE Return([S EXCEPT !.h[this].exports = Append(@, tag)], CommonJsModule)

\* require storing the edge in the requiring module only.
requireOneSided(S, this, requirement) ==
    IF S.h[this].name = S.h[requirement].name THEN Throw(S, SelfDependency)
    ELSE IF \/ HasKey(S.h, S.h[this].requires, S.h[requirement].name)
            \/ HasKey(S.h, S.h[requirement].dependants, S.h[this].name)
         THEN Throw(S, DuplicateEdge)
    ELSE Return([S EXCEPT !.h[this].requires = Append(@, requirement),
                          !.h[this].numberOfRequirements = @ + 1], this)

\* require rejecting an edge whose reverse is there as well.
requireEitherDirection(S, this, requirement) ==
    IF S.h[this].name = S.h[requirement].name THEN Throw(S, SelfDependency)
    ELSE IF \/ HasKey(S.h, S.h[this].requires, S.h[requirement].name)
            \/ HasKey(S.h, S.h[requirement].dependants, S.h[this].name)
            \/ HasKey(S.h, S.h[this].dependants, S.h[requirement].name)
            \/ HasKey(S.h, S.h[requirement].requires, S.h[this].name)
         THEN Throw(S, DuplicateEdge)
    ELSE LET h1 == [S.h EXCEPT ![this].requires = Append(@, requirement),
                               ![this].numberOfRequirements = @ + 1]
             h2 == [h1 EXCEPT ![requirement].dependants = Append(@, this),
                              ![requirement].numberOfDependants = @ + 1]
         IN  Return([S EXCEPT !.h = h2], this)

\* require without the self-dependency check.
requireNoSelfCheck(S, this, requirement) ==
    IF \/ HasKey(S.h, S.h[this].requires, S.h[requirement].name)
       \/ HasKey(S.h, S.h[requirement].dependants, S.h[this].name)
    THEN Throw(S, DuplicateEdge)
    ELSE LET h1 == [S.h EXCEPT ![this].requires = Append(@, requirement),
                               ![this].numberOfRequirements = @ + 1]
             h2 == [h1 EXCEPT ![requirement].dependants = Append(@, this),
                              ![requirement].numberOfDependants = @ + 1]
         IN  Return([S EXCEPT !.h = h2], this)

\* require without the duplicate check.
requireNoDuplicateCheck(S, this, requirement) ==
    IF S.h[this].name = S.h[requirement].name THEN Throw(S, SelfDependency)
    ELSE LET h1 == [S.h EXCEPT ![this].requires = Append(@, requirement),
                               ![this].numberOfRequirements = @ + 1]
             h2 == [h1 EXCEPT ![requirement].dependants = Append(@, this),
                              ![requirement].numberOfDependants = @ + 1]
         IN  Return([S EXCEPT !.h = h2], this)

require(S, this, requirement) ==
    IF S.h[this].name = S.h[requirement].name THEN Throw(S, SelfDependency)
    ELSE IF \/ HasKey(S.h, S.h[this].requires, S.h[requirement].name)
            \/ HasKey(S.h, S.h[requirement].dependants, S.h[this].name)
         THEN Throw(S, DuplicateEdge)
    ELSE LET h1 == [S.h EXCEPT ![this].requires = Append(@, requirement),
                               ![this].numberOfRequirements = @ + 1]
             h2 == [h1 EXCEPT ![requirement].dependants = Append(@, this),
                              ![requirement].numberOfDependants = @ + 1]
         IN  Return([S EXCEPT !.h = h2], this)

\* new ModuleCollection.Dependency(module, requirement)
Dependency(S, module, requirement) ==
    LET R == require(S, module, requirement)
    IN  IF R.err # None THEN R
        ELSE Return(R, [require |-> requirement, module |-> module])

(***************************************************************************)
(* ModuleCollection.prototype: get, add, connect                           *)
(***************************************************************************)
\* get looking the name up as given, untrimmed.
getUntrimmed(S, name, anyway) ==
    IF stringLikeThrows(name) THEN Throw(S, TypeError)
    ELSE IF HasKey(S.h, S.col.modules, name)
         THEN Return(S, Lookup(S.h, S.col.modules, name))
         ELSE IF ~anyway THEN Return(S, NoRef)
         ELSE LET S1 == [S EXCEPT !.col.numberOfModules = @ + 1]
                  ref == <<S.id, name>>
              IN  IF ModuleThrows(name) THEN Throw(S1, TypeError)
                  ELSE Return([S1 EXCEPT !.h = (ref :> Module(name)) @@ @,
                                         !.col.modules = Append(@, ref)], ref)

get(S, name, anyway) ==
    IF stringLikeThrows(name) THEN Throw(S, TypeError)
    ELSE LET key == stringLike(name)
         IN  IF HasKey(S.h, S.col.modules, key)
             THEN Return(S, Lookup(S.h, S.col.modules, key))
             ELSE IF ~anyway THEN Return(S, NoRef)
             ELSE LET S1 == [S EXCEPT !.col.numberOfModules = @ + 1]
                      ref == <<S.id, key>>
                  IN  \* ++this.numberOfModules, this.modules[name] = new Module(name)
                      IF ModuleThrows(key) THEN Throw(S1, TypeError)
                      ELSE Return([S1 EXCEPT !.h = (ref :> Module(key)) @@ @,
                                             !.col.modules = Append(@, ref)], ref)

connect(S, module, dependency) ==
    LET G1 == get(S, module, TRUE)
    IN  IF G1.err # None THEN G1
        ELSE LET G2 == get(G1, dependency, TRUE)
             IN  IF G2.err # None THEN G2
                 ELSE LET D == Dependency(G2, G1.val, G2.val)
                      IN  IF D.err # None THEN D
                          ELSE Return([D EXCEPT !.col.dependencies = Append(@, D.val),
                                                !.col.numberOfDependencies = @ + 1], D.val)

add(S, name, source) ==
    LET G == get(S, name, TRUE)
    IN  IF G.err # None THEN G
        ELSE LET D == define(G, G.val, source)
             IN  IF D.err # None THEN D
                 ELSE LET recent == D.val
                          src == D.h[recent].source
                          found == src \in DOMAIN D.col.sources
                          \* this.sources[source] || (this.sources[this._recentModule] = {})
                          key == IF found THEN src ELSE D.h[recent].name
                          bucket == IF found THEN D.col.sources[src] ELSE EmptyMap
                      IN  Return([D EXCEPT !.col.sources =
                                     (key :> ((src :> recent) @@ bucket)) @@ @], recent)

getBySource(col, source) ==
    IF source \in DOMAIN col.sources THEN col.sources[source] ELSE Undefined

(***************************************************************************)
(* serialize                                                               *)
(***************************************************************************)
\* sortStack is a JavaScript array used sparsely: a function from the
\* positions that were assigned to the bucket stored there.
Push(sortStack, index, module) ==
    IF index \in DOMAIN sortStack
    THEN [sortStack EXCEPT ![index] = Append(@, module)]
    ELSE (index :> <<module>>) @@ sortStack

\* A traversal in progress: T.thrown is set once the cycle error is thrown,
\* and T.named is the module its message names.
RECURSIVE collectionTopoSort(_, _)
RECURSIVE TopoSortRequires(_, _, _)
\* collectionTopoSort pushing a module before its requirements.
collectionTopoSortPreorder(T, module) ==
    IF T.h[module].topologicalMarker
    THEN [T EXCEPT !.h[module].topologicalMarker = FALSE,
                   !.thrown = TRUE, !.named = T.h[module].name]
    ELSE IF ~T.h[module].sorting
    THEN LET T1 == [T EXCEPT !.h[module].topologicalMarker = TRUE,
                             !.sortStack = Push(@, T.h[module].index, module)]
             T2 == TopoSortRequires(T1, T1.h[module].requires, 1)
         IN  IF T2.thrown THEN T2
             ELSE [T2 EXCEPT !.h[module].topologicalMarker = FALSE,
                             !.h[module].sorting = TRUE]
    ELSE T

\* collectionTopoSort returning, instead of throwing, on a module being visited.
collectionTopoSortSilent(T, module) ==
    IF T.h[module].topologicalMarker THEN T
    ELSE IF ~T.h[module].sorting
    THEN LET T1 == [T EXCEPT !.h[module].topologicalMarker = TRUE]
             T2 == TopoSortRequires(T1, T1.h[module].requires, 1)
         IN  IF T2.thrown THEN T2
             ELSE [T2 EXCEPT !.h[module].topologicalMarker = FALSE,
                             !.h[module].sorting = TRUE,
                             !.sortStack = Push(@, T2.h[module].index, module)]
    ELSE T

collectionTopoSort(T, module) ==
    IF T.h[module].topologicalMarker
    THEN [T EXCEPT !.h[module].topologicalMarker = FALSE,
                   !.thrown = TRUE, !.named = T.h[module].name]
    ELSE IF ~T.h[module].sorting
    THEN LET T1 == [T EXCEPT !.h[module].topologicalMarker = TRUE]
             T2 == TopoSortRequires(T1, T1.h[module].requires, 1)
         IN  IF T2.thrown THEN T2
             ELSE [T2 EXCEPT !.h[module].topologicalMarker = FALSE,
                             !.h[module].sorting = TRUE,
                             !.sortStack = Push(@, T2.h[module].index, module)]
    ELSE T

\* The loop over module.requires taking the last connected requirement first.
RECURSIVE TopoSortRequiresReversed(_, _, _)
TopoSortRequiresReversed(T, items, i) ==
    IF i > Len(items) \/ T.thrown THEN T
    ELSE TopoSortRequiresReversed(collectionTopoSort(T, items[Len(items) + 1 - i]), items, i + 1)

\* for (item in module.requires) collectionTopoSort(module.requires[item], sortStack)
TopoSortRequires(T, items, i) ==
    IF i > Len(items) \/ T.thrown THEN T
    ELSE TopoSortRequires(collectionTopoSort(T, items[i]), items, i + 1)

RECURSIVE collectionAdjacencyIndex(_, _, _)
RECURSIVE AdjacencyIndexEach(_, _, _, _)
\* collectionAdjacencyIndex following requires only.
collectionAdjacencyIndexEgress(h, module, index) ==
    IF ~h[module].indexing
    THEN LET h1 == [h EXCEPT ![module].index = index, ![module].indexing = TRUE]
         IN  AdjacencyIndexEach(h1, h1[module].requires, 1, index)
    ELSE h

collectionAdjacencyIndex(h, module, index) ==
    IF ~h[module].indexing
    THEN LET h1 == [h EXCEPT ![module].index = index, ![module].indexing = TRUE]
             h2 == AdjacencyIndexEach(h1, h1[module].requires, 1, index)
         IN  AdjacencyIndexEach(h2, h2[module].dependants, 1, index)
    ELSE h

AdjacencyIndexEach(h, items, i, index) ==
    IF i > Len(items) THEN h
    ELSE AdjacencyIndexEach(collectionAdjacencyIndex(h, items[i], index), items, i + 1, index)

\* The first loop of serialize with adjacencyPoint never incremented.
RECURSIVE SerializeLoopOneIndex(_, _, _, _)
SerializeLoopOneIndex(T, modules, i, adjacencyPoint) ==
    IF i > Len(modules) \/ T.thrown THEN T
    ELSE LET module == modules[i]
             T1 == IF ~T.h[module].indexing
                   THEN [T EXCEPT !.h = collectionAdjacencyIndex(@, module, adjacencyPoint)]
                   ELSE T
             T2 == IF ~T1.h[module].sorting THEN collectionTopoSort(T1, module) ELSE T1
         IN  SerializeLoopOneIndex(T2, modules, i + 1, adjacencyPoint)

\* The first loop of serialize with adjacencyPoint incremented for every module.
RECURSIVE SerializeLoopCountAll(_, _, _, _)
SerializeLoopCountAll(T, modules, i, adjacencyPoint) ==
    IF i > Len(modules) \/ T.thrown THEN T
    ELSE LET module == modules[i]
             T1 == IF ~T.h[module].indexing
                   THEN [T EXCEPT !.h = collectionAdjacencyIndex(@, module, adjacencyPoint)]
                   ELSE T
             T2 == IF ~T1.h[module].sorting THEN collectionTopoSort(T1, module) ELSE T1
         IN  SerializeLoopCountAll(T2, modules, i + 1, adjacencyPoint + 1)

\* The first loop of serialize sorting a module before indexing it.
RECURSIVE SerializeLoopSortFirst(_, _, _, _)
SerializeLoopSortFirst(T, modules, i, adjacencyPoint) ==
    IF i > Len(modules) \/ T.thrown THEN T
    ELSE LET module == modules[i]
             fresh == ~T.h[module].indexing
             T1 == IF ~T.h[module].sorting THEN collectionTopoSort(T, module) ELSE T
             T2 == IF fresh /\ ~T1.thrown
                   THEN [T1 EXCEPT !.h = collectionAdjacencyIndex(@, module, adjacencyPoint)]
                   ELSE T1
         IN  SerializeLoopSortFirst(T2, modules, i + 1,
                                    IF fresh THEN adjacencyPoint + 1 ELSE adjacencyPoint)

\* The first loop of serialize, from the i-th module of the registry on.
RECURSIVE SerializeLoop(_, _, _, _)
SerializeLoop(T, modules, i, adjacencyPoint) ==
    IF i > Len(modules) \/ T.thrown THEN T
    ELSE LET module == modules[i]
             fresh == ~T.h[module].indexing
             T1 == IF fresh
                   THEN [T EXCEPT !.h = collectionAdjacencyIndex(@, module, adjacencyPoint)]
                   ELSE T
             T2 == IF ~T1.h[module].sorting THEN collectionTopoSort(T1, module) ELSE T1
         IN  SerializeLoop(T2, modules, i + 1, IF fresh THEN adjacencyPoint + 1 ELSE adjacencyPoint)

\* The second loop of serialize deleting sorting only.
ClearFlagsSortingOnly(h, modules) ==
    [r \in DOMAIN h |->
        IF \E i \in 1..Len(modules) : modules[i] = r
        THEN [h[r] EXCEPT !.sorting = FALSE]
        ELSE h[r]]

\* The second loop of serialize emptying requires and dependants as well.
ClearFlagsAndAdjacency(h, modules) ==
    [r \in DOMAIN h |->
        IF \E i \in 1..Len(modules) : modules[i] = r
        THEN [h[r] EXCEPT !.sorting = FALSE, !.indexing = FALSE,
                          !.requires = <<>>, !.dependants = <<>>]
        ELSE h[r]]

\* The second loop of serialize: delete every module's sorting and indexing.
ClearFlags(h, modules) ==
    [r \in DOMAIN h |->
        IF \E i \in 1..Len(modules) : modules[i] = r
        THEN [h[r] EXCEPT !.sorting = FALSE, !.indexing = FALSE]
        ELSE h[r]]

serialize(S) ==
    LET T == SerializeLoop([h |-> S.h, sortStack |-> EmptyMap, thrown |-> FALSE, named |-> <<>>],
                           S.col.modules, 1, 0)
    IN  IF T.thrown
        THEN [S EXCEPT !.h = T.h, !.err = CyclicDependency, !.val = T.named]
        ELSE Return([S EXCEPT !.h = ClearFlags(T.h, S.col.modules)], T.sortStack)

(***************************************************************************)
(* analyse, clone                                                          *)
(***************************************************************************)
\* The export count taking one for every module that has a tag.
RECURSIVE NumberOfExportsPerModule(_, _, _)
NumberOfExportsPerModule(h, modules, i) ==
    IF i > Len(modules) THEN 0
    ELSE (IF h[modules[i]].exports # <<>> THEN 1 ELSE 0) + NumberOfExportsPerModule(h, modules, i + 1)

RECURSIVE NumberOfExports(_, _, _)
NumberOfExports(h, modules, i) ==
    IF i > Len(modules) THEN 0
    ELSE Len(h[modules[i]].exports) + NumberOfExports(h, modules, i + 1)

\* analysers[0] taking a module for defined when its source is truthy.
analyseTruthySource(h, col) ==
    LET IsDefined(m) == h[m].source # Undefined /\ h[m].source # <<>>
        IsOrphan(m) == ~IsDefined(m)
    IN  [orphanModules |-> SelectSeq(col.modules, IsOrphan),
         definedModules |-> SelectSeq(col.modules, IsDefined),
         numberOfExports |-> NumberOfExports(h, col.modules, 1)]

\* ModuleCollection.analysers[0], the only analyser analyse() runs.
analyse(h, col) ==
    LET IsDefined(m) == defined(h, m)
        IsOrphan(m) == ~defined(h, m)
    IN  [orphanModules |-> SelectSeq(col.modules, IsOrphan),
         definedModules |-> SelectSeq(col.modules, IsDefined),
         numberOfExports |-> NumberOfExports(h, col.modules, 1)]

\* Module.prototype.clone: new Module(this.name, this.source), an object no
\* collection holds; the constructor defines it only for a truthy source.
moduleClone(h, this) ==
    [Module(h[this].name) EXCEPT
        !.source = IF h[this].source # Undefined /\ h[this].source # <<>>
                   THEN stringLike(h[this].source) ELSE Undefined]

\* Module.prototype.toString, which lib.stringLike calls on a Module argument.
toString(module) == module.name

\* First loop of clone: clone.add(this.modules[item].clone(), this.modules[item].source)
RECURSIVE CloneModules(_, _, _)
CloneModules(S, modules, i) ==
    IF i > Len(modules) \/ S.err # None THEN S
    ELSE CloneModules(add(S, toString(moduleClone(S.h, modules[i])), S.h[modules[i]].source),
                      modules, i + 1)

\* Second loop of clone: clone.connect(item.module, item.require)
RECURSIVE CloneDependencies(_, _, _)
CloneDependencies(S, dependencies, i) ==
    IF i > Len(dependencies) \/ S.err # None THEN S
    ELSE CloneDependencies(connect(S, toString(S.h[dependencies[i].module]),
                                      toString(S.h[dependencies[i].require])),
                           dependencies, i + 1)

\* clone handing out the original's own Module objects and containers.
cloneShared(h, this, id) == Start(h, this, id)

\* clone giving every module of the copy the exports of the module it copies.
cloneWithExports(h, this, id) ==
    LET S1 == CloneModules(Start(h, ModuleCollection, id), this.modules, 1)
        S2 == IF S1.err # None THEN S1 ELSE CloneDependencies(S1, this.dependencies, 1)
    IN  IF S2.err # None THEN S2
        ELSE [S2 EXCEPT !.h =
                 [r \in DOMAIN S2.h |->
                     IF r[1] = id
                     THEN [S2.h[r] EXCEPT
                              !.exports = h[Lookup(h, this.modules, S2.h[r].name)].exports]
                     ELSE S2.h[r]]]

\* this.clone(), building the new collection under the id `id`.  S.col of
\* the result is the clone; S.err tells whether an exception escaped.
clone(h, this, id) ==
    LET S1 == CloneModules(Start(h, ModuleCollection, id), this.modules, 1)
    IN  IF S1.err # None THEN S1
        ELSE CloneDependencies(S1, this.dependencies, 1)

(***************************************************************************)
(* ModuleCollection.prototype.toString.  The text is a sequence of pieces: *)
(* the characters of the names, and each literal of the source as one      *)
(* piece.                                                                  *)
(***************************************************************************)
Header == "digraph jslink {\n"

Quote == "\""

Arrow == "\"->\""

EndLine == "\";\n"

Footer == "}"

\* lib.format("\"{0}\"->\"{1}\";\n", a, b), a and b already turned to strings.
format(a, b) == <<Quote>> \o a \o <<Arrow>> \o b \o <<EndLine>>

\* for (dependant in module.dependants): the key is the dependant's name.
RECURSIVE ToStringDependants(_, _, _)
ToStringDependants(h, module, i) ==
    IF i > Len(h[module].dependants) THEN <<>>
    ELSE format(toString(h[module]), h[h[module].dependants[i]].name)
             \o ToStringDependants(h, module, i + 1)

\* The loop over the modules testing numberOfRequirements, as its comment says.
RECURSIVE ToStringModulesByRequirements(_, _, _)
ToStringModulesByRequirements(h, modules, i) ==
    IF i > Len(modules) THEN <<>>
    ELSE (IF h[modules[i]].numberOfRequirements # 0
          THEN ToStringDependants(h, modules[i], 1)
          ELSE <<Quote>> \o h[modules[i]].name \o <<EndLine>>)
             \o ToStringModulesByRequirements(h, modules, i + 1)

RECURSIVE ToStringModules(_, _, _)
ToStringModules(h, modules, i) ==
    IF i > Len(modules) THEN <<>>
    ELSE (IF h[modules[i]].numberOfDependants # 0
          THEN ToStringDependants(h, modules[i], 1)
          ELSE <<Quote>> \o h[modules[i]].name \o <<EndLine>>)
             \o ToStringModules(h, modules, i + 1)

ModuleCollectionToString(h, col) ==
    <<Header>> \o ToStringModules(h, col.modules, 1) \o <<Footer>>

(***************************************************************************)
(* The calls a client makes.  ret records the last call: what was called,  *)
(* on which collection, with which arguments, and what it returned or      *)
(* threw.                                                                  *)
(***************************************************************************)
MaxDeps == 3

MaxBlank == 1

MaxSinceClone == 1

Original == 1

Copy == 2

Result(op, c, S) == [op |-> op, col |-> c, err |-> S.err, val |-> S.val]

\* The model follows a call only while the collection stays within the bounds.
Within(col) ==
    /\ Len(col.dependencies) <= MaxDeps
    /\ col.numberOfModules - Len(col.modules) <= MaxBlank

\* Once a copy exists, the model follows MaxSinceClone further calls, until
\* the next successful clone() replaces the copy.
Tick ==
    IF Copy \in DOMAIN cols
    THEN sinceClone < MaxSinceClone /\ sinceClone' = sinceClone + 1
    ELSE sinceClone' = sinceClone

Commit(op, c, S) ==
    /\ Within(S.col)
    /\ Tick
    /\ heap' = S.h
    /\ cols' = [cols EXCEPT ![c] = S.col]
    /\ ret' = Result(op, c, S)

GetCall(c, name, anyway) ==
    /\ c \in DOMAIN cols
    /\ Commit("get", c, get(Start(heap, cols[c], c), name, anyway))

AddCall(c, name, source) ==
    /\ c \in DOMAIN cols
    /\ Commit("add", c, add(Start(heap, cols[c], c), name, source))

ConnectCall(c, module, dependency) ==
    /\ c \in DOMAIN cols
    /\ Commit("connect", c, connect(Start(heap, cols[c], c), module, dependency))

SerializeCall(c) ==
    /\ c \in DOMAIN cols
    /\ Commit("serialize", c, serialize(Start(heap, cols[c], c)))

\* collection.get(name).addExport(meta), on a module the collection holds.
AddExportCall(c, name, meta) ==
    /\ c \in DOMAIN cols
    /\ HasKey(heap, cols[c].modules, name)
    /\ Commit("addExport", c,
              addExport(Start(heap, cols[c], c), Lookup(heap, cols[c].modules, name), meta))

ToStringCall(c) ==
    /\ c \in DOMAIN cols
    /\ Tick
    /\ ret' = [op |-> "toString", col |-> c, err |-> None,
               val |-> ModuleCollectionToString(heap, cols[c])]
    /\ UNCHANGED <<heap, cols>>

AnalyseCall(c) ==
    /\ c \in DOMAIN cols
    /\ Tick
    /\ ret' = [op |-> "analyse", col |-> c, err |-> None, val |-> analyse(heap, cols[c])]
    /\ UNCHANGED <<heap, cols>>

GetBySourceCall(c, source) ==
    /\ c \in DOMAIN cols
    /\ Tick
    /\ ret' = [op |-> "getBySource", col |-> c, err |-> None,
               val |-> getBySource(cols[c], source)]
    /\ UNCHANGED <<heap, cols>>

\* copy = original.clone(): the cells of an earlier copy are dropped when the
\* new one replaces it; a clone() that throws leaves everything as it was.
CloneCall ==
    LET kept == {r \in DOMAIN heap : r[1] # Copy}
        S == clone([r \in kept |-> heap[r]], cols[Original], Copy)
    IN  /\ ret' = [op |-> "clone", col |-> Original, err |-> S.err,
                   val |-> IF S.err = None THEN Copy ELSE NoRef]
        /\ IF S.err = None
           THEN heap' = S.h /\ cols' = (Copy :> S.col) @@ cols /\ sinceClone' = 0
           ELSE Tick /\ UNCHANGED <<heap, cols>>

(***************************************************************************)
(* serialize, one step at a time.  While a run is under way ret.op is      *)
(* "serializing" and ret.run is the run: the position of the first loop    *)
(* (module i, about to be indexed or sorted), adjacencyPoint, sortStack,   *)
(* and the stack of calls of collectionAdjacencyIndex and                  *)
(* collectionTopoSort, each with the module it was called on, the modules  *)
(* its loops go through and the position in them.  `assigned` lists the    *)
(* modules in the order their index was assigned in this run, and `from`   *)
(* is the heap the run started on.                                         *)
(***************************************************************************)
Running == ret.op = "serializing"

Frame(fn, module, items, index) ==
    [fn |-> fn, module |-> module, items |-> items, pos |-> 1, index |-> index]

\* Entering collectionTopoSort without looking at module.sorting.
EnterResorting(run, h, fn, callee, index) ==
    IF fn = "index"
    THEN IF ~h[callee].indexing
         THEN [run |-> [run EXCEPT
                           !.stack = Append(@, Frame(fn, callee,
                                                     h[callee].requires \o h[callee].dependants,
                                                     index)),
                           !.assigned = Append(@, callee)],
               h |-> [h EXCEPT ![callee].index = index, ![callee].indexing = TRUE],
               thrown |-> FALSE, named |-> <<>>]
         ELSE [run |-> run, h |-> h, thrown |-> FALSE, named |-> <<>>]
    ELSE IF h[callee].topologicalMarker
         THEN [run |-> run, h |-> [h EXCEPT ![callee].topologicalMarker = FALSE],
               thrown |-> TRUE, named |-> h[callee].name]
         ELSE [run |-> [run EXCEPT
                           !.stack = Append(@, Frame(fn, callee, h[callee].requires, NoIndex))],
               h |-> [h EXCEPT ![callee].topologicalMarker = TRUE],
               thrown |-> FALSE, named |-> <<>>]

\* A call of collectionAdjacencyIndex(callee, index) or of
\* collectionTopoSort(callee, sortStack), up to its first loop.
Enter(run, h, fn, callee, index) ==
    IF fn = "index"
    THEN IF ~h[callee].indexing
         THEN [run |-> [run EXCEPT
                           !.stack = Append(@, Frame(fn, callee,
                                                     h[callee].requires \o h[callee].dependants,
                                                     index)),
                           !.assigned = Append(@, callee)],
               h |-> [h EXCEPT ![callee].index = index, ![callee].indexing = TRUE],
               thrown |-> FALSE, named |-> <<>>]
         ELSE [run |-> run, h |-> h, thrown |-> FALSE, named |-> <<>>]
    ELSE IF h[callee].topologicalMarker
         THEN [run |-> run, h |-> [h EXCEPT ![callee].topologicalMarker = FALSE],
               thrown |-> TRUE, named |-> h[callee].name]
         ELSE IF ~h[callee].sorting
         THEN [run |-> [run EXCEPT
                           !.stack = Append(@, Frame(fn, callee, h[callee].requires, NoIndex))],
               h |-> [h EXCEPT ![callee].topologicalMarker = TRUE],
               thrown |-> FALSE, named |-> <<>>]
         ELSE [run |-> run, h |-> h, thrown |-> FALSE, named |-> <<>>]

\* The end of a call: collectionTopoSort marks the module sorted and pushes it.
Leave(run, h) ==
    LET top == run.stack[Len(run.stack)]
        rest == SubSeq(run.stack, 1, Len(run.stack) - 1)
    IN  IF top.fn = "sort"
        THEN [run |-> [run EXCEPT !.stack = rest,
                                  !.sortStack = Push(@, h[top.module].index, top.module)],
              h |-> [h EXCEPT ![top.module].topologicalMarker = FALSE,
                              ![top.module].sorting = TRUE],
              thrown |-> FALSE, named |-> <<>>]
        ELSE [run |-> [run EXCEPT !.stack = rest], h |-> h, thrown |-> FALSE, named |-> <<>>]

\* What the run does next, given that the first loop is not over.
Advance(run, h, modules) ==
    IF run.stack # <<>>
    THEN LET top == run.stack[Len(run.stack)]
         IN  IF top.pos <= Len(top.items)
             THEN Enter([run EXCEPT !.stack[Len(run.stack)].pos = @ + 1], h,
                        top.fn, top.items[top.pos], top.index)
             ELSE Leave(run, h)
    ELSE IF run.phase = "index"
    THEN IF ~h[modules[run.i]].indexing
         THEN Enter([run EXCEPT !.phase = "sort", !.adjacencyPoint = @ + 1], h,
                    "index", modules[run.i], run.adjacencyPoint)
         ELSE [run |-> [run EXCEPT !.phase = "sort"], h |-> h, thrown |-> FALSE, named |-> <<>>]
    ELSE IF ~h[modules[run.i]].sorting
         THEN Enter([run EXCEPT !.phase = "index", !.i = @ + 1], h,
                    "sort", modules[run.i], NoIndex)
         ELSE [run |-> [run EXCEPT !.phase = "index", !.i = @ + 1], h |-> h,
               thrown |-> FALSE, named |-> <<>>]

\* collection.serialize() is called.
SerializeBegin(c) ==
    /\ c \in DOMAIN cols
    /\ ~Running
    /\ Tick
    /\ ret' = [op |-> "serializing", col |-> c, err |-> None, val |-> NoRef,
               run |-> [i |-> 1, phase |-> "index", adjacencyPoint |-> 0,
                        sortStack |-> EmptyMap, stack |-> <<>>, assigned |-> <<>>,
                        from |-> heap]]
    /\ UNCHANGED <<heap, cols>>

\* collection.connect(module, dependency) written as a statement: the
\* Dependency it returns is dropped, its exception is kept.
ConnectStep(c, module, dependency) ==
    LET S == connect(Start(heap, cols[c], c), module, dependency)
    IN  /\ c \in DOMAIN cols
        /\ Within(S.col)
        /\ Tick
        /\ heap' = S.h
        /\ cols' = [cols EXCEPT ![c] = S.col]
        /\ ret' = [op |-> "connect", col |-> c, err |-> S.err, val |-> NoRef]

\* The next step of the run: a step of the first loop or of a call under it,
\* the exception leaving serialize(), or the second loop and the return.
SerializeStep(c) ==
    /\ Running /\ ret.col = c
    /\ UNCHANGED <<cols, sinceClone>>
    /\ IF ret.run.stack = <<>> /\ ret.run.i > Len(cols[c].modules)
       THEN /\ heap' = ClearFlags(heap, cols[c].modules)
            /\ ret' = [op |-> "serialize", col |-> c, err |-> None, val |-> ret.run.sortStack]
       ELSE LET A == Advance(ret.run, heap, cols[c].modules)
            IN  /\ heap' = A.h
                /\ ret' = IF A.thrown
                          THEN [op |-> "serialize", col |-> c, err |-> CyclicDependency,
                                val |-> A.named]
                          ELSE [ret EXCEPT !.run = A.run]

(***************************************************************************)
(* Specifications                                                          *)
(***************************************************************************)
\* Raw arguments: names as a caller may write them (padded, blank, missing)
\* and source paths (one of them equal to a module name).
RawNames == {<<"a">>, <<" ", "a">>, <<"b">>, <<" ">>, Undefined}

RawSources == {<<"s">>, <<"a", " ">>, <<" ">>, Undefined}

GraphNames == {<<"a">>, <<"b">>, <<"c">>}

Init ==
    /\ heap = EmptyMap
    /\ cols = (Original :> ModuleCollection)
    /\ sinceClone = 0
    /\ ret = [op |-> "new", col |-> Original, err |-> None, val |-> Original]

Next ==
    \/ \E c \in DOMAIN cols, n \in RawNames, anyway \in BOOLEAN : GetCall(c, n, anyway)
    \/ \E c \in DOMAIN cols, n \in RawNames, s \in RawSources : AddCall(c, n, s)
    \/ \E c \in DOMAIN cols, m \in RawNames, d \in RawNames : ConnectCall(c, m, d)
    \/ \E c \in DOMAIN cols : SerializeCall(c)
    \/ \E c \in DOMAIN cols : AnalyseCall(c)
    \/ \E c \in DOMAIN cols, s \in RawSources : GetBySourceCall(c, s)
    \/ CloneCall

Spec == Init /\ [][Next]_vars

\* The graph alone: modules created by get and connect, and serialize.
NextGraph ==
    \/ \E n \in GraphNames : GetCall(Original, n, TRUE)
    \/ \E m \in GraphNames, d \in GraphNames : ConnectCall(Original, m, d)
    \/ SerializeCall(Original)

SpecGraph == Init /\ [][NextGraph]_vars

\* One collection, its modules created by get, add and connect from raw
\* names, and serialize.
NextConnect ==
    \/ \E n \in RawNames : GetCall(Original, n, TRUE)
    \/ \E n \in RawNames : AddCall(Original, n, <<"s">>)
    \/ \E m \in RawNames, d \in RawNames : ConnectCall(Original, m, d)
    \/ SerializeCall(Original)

SpecConnect == Init /\ [][NextConnect]_vars

\* Definitions: add with every source, and the calls that might disturb a
\* source once it is set, on a collection and its copy.
DefineNames == {<<"a">>, <<" ", "a">>, <<"b">>}

NextDefine ==
    \/ \E c \in DOMAIN cols, n \in DefineNames, s \in RawSources : AddCall(c, n, s)
    \/ \E c \in DOMAIN cols, m \in DefineNames, d \in DefineNames : ConnectCall(c, m, d)
    \/ \E c \in DOMAIN cols : SerializeCall(c)
    \/ \E c \in DOMAIN cols : AnalyseCall(c)
    \/ CloneCall

SpecDefine == Init /\ [][NextDefine]_vars

\* The registry: get with and without the create flag, add and connect, all
\* from raw names and sources.
NextRegistry ==
    \/ \E n \in RawNames, anyway \in BOOLEAN : GetCall(Original, n, anyway)
    \/ \E n \in RawNames, s \in RawSources : AddCall(Original, n, s)
    \/ \E m \in RawNames, d \in RawNames : ConnectCall(Original, m, d)

SpecRegistry == Init /\ [][NextRegistry]_vars

\* A collection and its copy, both built, tagged and serialized.
CloneNames == {<<"a">>, <<"b">>}

NextClone ==
    \/ \E c \in DOMAIN cols, n \in CloneNames : AddCall(c, n, <<"s">>)
    \/ \E c \in DOMAIN cols, m \in CloneNames, d \in CloneNames : ConnectCall(c, m, d)
    \/ \E c \in DOMAIN cols, n \in CloneNames : AddExportCall(c, n, Undefined)
    \/ \E c \in DOMAIN cols : SerializeCall(c)
    \/ CloneCall

SpecClone == Init /\ [][NextClone]_vars

\* One collection built by add and connect, its modules tagged, and analyse.
RawTags == {<<"x">>, <<"a">>, Undefined}

NextAnalyse ==
    \/ \E n \in CloneNames, s \in {<<"s">>, Undefined} : AddCall(Original, n, s)
    \/ \E m \in CloneNames, d \in CloneNames : ConnectCall(Original, m, d)
    \/ \E n \in CloneNames, meta \in RawTags : AddExportCall(Original, n, meta)
    \/ AnalyseCall(Original)

SpecAnalyse == Init /\ [][NextAnalyse]_vars

\* Two chains, (a requires b) and (x requires y), declared by add and connect
\* calls in any order, and serialize.
ChainNames == {<<"a">>, <<"b">>, <<"x">>, <<"y">>}

Chains == {<<<<"a">>, <<"b">>>>, <<<<"x">>, <<"y">>>>}

NextChains ==
    \/ \E n \in ChainNames : AddCall(Original, n, <<"s">>)
    \/ \E e \in Chains : ConnectCall(Original, e[1], e[2])
    \/ SerializeCall(Original)

SpecChains == Init /\ [][NextChains]_vars

\* The graph built by get and connect, and its textual export.
NextExport ==
    \/ \E n \in GraphNames : GetCall(Original, n, TRUE)
    \/ \E m \in GraphNames, d \in GraphNames : ConnectCall(Original, m, d)
    \/ ToStringCall(Original)

SpecExport == Init /\ [][NextExport]_vars

\* new ModuleCollection() written as a statement of the run's client.
InitRun ==
    /\ heap = EmptyMap
    /\ cols = (Original :> ModuleCollection)
    /\ sinceClone = 0
    /\ ret = [op |-> "new", col |-> Original, err |-> None, val |-> NoRef]

\* The graph built by connect, and serialize() run step by step; no other
\* call starts while serialize() runs, and a run that started goes on.
NextRun ==
    \/ \E m \in GraphNames, d \in GraphNames : ~Running /\ ConnectStep(Original, m, d)
    \/ SerializeBegin(Original)
    \/ SerializeStep(Original)

\* What every step of a run changes: the run itself, or ret.op at its end.
Progress ==
    <<ret.op, heap,
      IF Running THEN ret.run
      ELSE [i |-> 0, phase |-> "none", adjacencyPoint |-> 0, sortStack |-> EmptyMap,
            stack |-> <<>>, assigned |-> <<>>, from |-> EmptyMap]>>

SpecRun == InitRun /\ [][NextRun]_vars /\ WF_Progress(SerializeStep(Original))

(***************************************************************************)
(* The graph a collection holds, read off its edge sequence and registry,  *)
(* and the graph notions the properties are stated with.                   *)
(***************************************************************************)
NamesOf(c) == {heap[cols[c].modules[i]].name : i \in 1..Len(cols[c].modules)}

EdgesOf(c) ==
    {<<heap[cols[c].dependencies[i].module].name, heap[cols[c].dependencies[i].require].name>> :
        i \in 1..Len(cols[c].dependencies)}

Targets(E, X) == {e[2] : e \in {f \in E : f[1] \in X}}

RECURSIVE Closure(_, _)
Closure(E, X) == IF Targets(E, X) \subseteq X THEN X ELSE Closure(E, X \cup Targets(E, X))

\* The vertices reached from x along one or more edges of E.
Beyond(E, x) == Closure(E, Targets(E, {x}))

OnCycle(E, x) == x \in Beyond(E, x)

HasCycle(E) == \E e \in E : OnCycle(E, e[1])

Undirected(E) == E \cup {<<e[2], e[1]>> : e \in E}

WeaklyConnected(E, x, y) == x = y \/ y \in Beyond(Undirected(E), x)

\* Where the returned bucket sequence holds module m: pairs <<bucket, position>>.
Places(buckets, m) ==
    {p \in UNION {{<<k, i>> : i \in 1..Len(buckets[k])} : k \in DOMAIN buckets} :
        buckets[p[1]][p[2]] = m}

Serialized == ret.op = "serialize"

GraphOfCall == EdgesOf(ret.col)

(***************************************************************************)
(* Properties of serialize                                                 *)
(***************************************************************************)
\* C1: on a graph with no directed cycle serialize() returns buckets, and for
\* every edge (m requires r) some bucket holds both r and m, with r at a
\* strictly earlier position than m.
C1_RequirementsFirst ==
    (Serialized /\ ~HasCycle(GraphOfCall)) =>
        /\ ret.err = None
        /\ \A i \in 1..Len(cols[ret.col].dependencies) :
              LET m == cols[ret.col].dependencies[i].module
                  r == cols[ret.col].dependencies[i].require
              IN  \E pm \in Places(ret.val, m), pr \in Places(ret.val, r) :
                      pm[1] = pr[1] /\ pr[2] < pm[2]

\* C1 witness: serialize() returned for a graph that holds a chain of two
\* edges (x requires y, y requires z) and a module with two requirements.
C1_Witness ==
    /\ Serialized /\ ret.err = None
    /\ \E e \in GraphOfCall, f \in GraphOfCall : e[2] = f[1]
    /\ \E e \in GraphOfCall, f \in GraphOfCall : e[1] = f[1] /\ e[2] # f[2]

\* C2: on a graph with no directed cycle every registered module is in
\* exactly one bucket exactly once, two modules share a bucket exactly when
\* they are weakly connected, and with no edge at all every bucket holds one
\* module.
C2_BucketsAreComponents ==
    (Serialized /\ ~HasCycle(GraphOfCall)) =>
        /\ ret.err = None
        /\ \A i \in 1..Len(cols[ret.col].modules) :
              Cardinality(Places(ret.val, cols[ret.col].modules[i])) = 1
        /\ \A k \in DOMAIN ret.val : \A i \in 1..Len(ret.val[k]) :
              \E j \in 1..Len(cols[ret.col].modules) : cols[ret.col].modules[j] = ret.val[k][i]
        /\ \A i, j \in 1..Len(cols[ret.col].modules) :
              LET x == cols[ret.col].modules[i]
                  y == cols[ret.col].modules[j]
              IN  (\E px \in Places(ret.val, x), py \in Places(ret.val, y) : px[1] = py[1])
                      <=> WeaklyConnected(GraphOfCall, heap[x].name, heap[y].name)
        /\ GraphOfCall = {} =>
              /\ Cardinality(DOMAIN ret.val) = Len(cols[ret.col].modules)
              /\ \A k \in DOMAIN ret.val : Len(ret.val[k]) = 1

\* C2 witness: serialize() returned two buckets, one of them with two modules.
C2_Witness ==
    /\ Serialized /\ ret.err = None
    /\ Cardinality(DOMAIN ret.val) = 2
    /\ \E k \in DOMAIN ret.val : Len(ret.val[k]) = 2

\* C3: serialize() throws the cycle error exactly when the graph holds a
\* directed cycle, on every call; a call that throws returns no buckets.
C3_FailsIffCyclic ==
    Serialized =>
        /\ (ret.err = CyclicDependency) <=> HasCycle(GraphOfCall)
        /\ ret.err \in {None, CyclicDependency}
        /\ ret.err = CyclicDependency => ret.val \in NamesOf(ret.col)

\* C3 witness: a repeated call failed: it ran on markers an earlier failed
\* call left, and named a module that is on no cycle.
C3_Witness ==
    /\ Serialized /\ ret.err = CyclicDependency
    /\ ~OnCycle(GraphOfCall, ret.val)

\* C4 as claimed: the module a failing serialize() names lies on a directed
\* cycle, on the first call and on every repeated one.
C4_NamedModuleOnCycle ==
    (Serialized /\ ret.err = CyclicDependency) => OnCycle(GraphOfCall, ret.val)

\* C5 as claimed: when serialize() has ended, by returning or by throwing, no
\* module of the graph carries topologicalMarker, sorting or indexing.
C5_MarkersReset ==
    Serialized =>
        \A i \in 1..Len(cols[ret.col].modules) :
            LET m == heap[cols[ret.col].modules[i]]
            IN  ~m.topologicalMarker /\ ~m.sorting /\ ~m.indexing

(***************************************************************************)
(* Properties of connect, add, getBySource and clone                       *)
(***************************************************************************)
\* An argument lib.stringLike accepts and that does not trim to nothing.
IsName(n) == ~stringLikeThrows(n) /\ stringLike(n) # <<>>

Adjacency(h, r) == <<h[r].requires, h[r].dependants>>

\* C6: connect(a, a) throws the self-dependency error for every name a, and
\* the call leaves the edge sequence, numberOfDependencies and every
\* module's requires and dependants as they were (a module the call created
\* has none).
C6_SelfConnectRejected ==
    [][\A c \in DOMAIN cols, a \in RawNames, b \in RawNames :
          (/\ ret'.op = "connect" /\ ret'.col = c
           /\ IsName(a) /\ stringLike(a) = stringLike(b)
           /\ ConnectCall(c, a, b)) =>
              /\ ret'.err = SelfDependency
              /\ cols'[c].dependencies = cols[c].dependencies
              /\ cols'[c].numberOfDependencies = cols[c].numberOfDependencies
              /\ \A r \in DOMAIN heap : Adjacency(heap', r) = Adjacency(heap, r)
              /\ \A r \in DOMAIN heap' \ DOMAIN heap : Adjacency(heap', r) = <<<<>>, <<>>>>
      ]_vars

\* C6 witness: a connect threw the self-dependency error on a collection
\* that holds edges.
C6_Witness ==
    /\ ret.op = "connect" /\ ret.err = SelfDependency
    /\ cols[ret.col].numberOfDependencies > 0

NoRepeatedEdge(c) ==
    \A i, j \in 1..Len(cols[c].dependencies) :
        (/\ cols[c].dependencies[i].module = cols[c].dependencies[j].module
         /\ cols[c].dependencies[i].require = cols[c].dependencies[j].require) => i = j

\* C7: a connect(a, b) of distinct names that succeeds adds exactly one edge;
\* an edge once added stays; while the edge (a, b) is there, connect(a, b)
\* throws the duplicate error and adds nothing; the edge sequence never
\* holds an ordered pair twice.
C7_DuplicateEdgeRejected ==
    [][/\ \A c \in DOMAIN cols' : NoRepeatedEdge(c)'
       /\ \A c \in DOMAIN cols :
             ~(c = Copy /\ ret'.op = "clone" /\ ret'.err = None) =>
                 /\ Len(cols'[c].dependencies) >= Len(cols[c].dependencies)
                 /\ SubSeq(cols'[c].dependencies, 1, Len(cols[c].dependencies))
                        = cols[c].dependencies
       /\ \A c \in DOMAIN cols, a \in RawNames, b \in RawNames :
             (/\ ret'.op = "connect" /\ ret'.col = c
              /\ IsName(a) /\ IsName(b) /\ stringLike(a) # stringLike(b)
              /\ ConnectCall(c, a, b)) =>
                 IF <<stringLike(a), stringLike(b)>> \in EdgesOf(c)
                 THEN /\ ret'.err = DuplicateEdge
                      /\ cols'[c].dependencies = cols[c].dependencies
                      /\ cols'[c].numberOfDependencies = cols[c].numberOfDependencies
                 ELSE /\ ret'.err = None
                      /\ Len(cols'[c].dependencies) = Len(cols[c].dependencies) + 1
                      /\ cols'[c].numberOfDependencies = cols[c].numberOfDependencies + 1
      ]_vars

\* C7 witness: a connect threw the duplicate error.
C7_Witness ==
    /\ ret.op = "connect" /\ ret.err = DuplicateEdge
    /\ cols[ret.col].numberOfDependencies = 1

\* A successful clone() puts new Module objects in the copy's cells.
Replaced(r) == r[1] = Copy /\ ret'.op = "clone" /\ ret'.err = None

\* C8: add on a module that has a source throws the duplicate-definition
\* error whatever source is given, and a module that has a source keeps it
\* over every call.
C8_SourceAssignedOnce ==
    /\ [][\A c \in DOMAIN cols, n \in RawNames, s \in RawSources :
             (/\ ret'.op = "add" /\ ret'.col = c
              /\ IsName(n) /\ HasKey(heap, cols[c].modules, stringLike(n))
              /\ defined(heap, Lookup(heap, cols[c].modules, stringLike(n)))
              /\ AddCall(c, n, s)) =>
                 ret'.err = DuplicateDefinition
        ]_vars
    /\ [][\A r \in DOMAIN heap :
             (defined(heap, r) /\ ~Replaced(r)) =>
                 r \in DOMAIN heap' /\ heap'[r].source = heap[r].source
        ]_vars

\* C8 witness: an add threw the duplicate-definition error.
C8_Witness == ret.op = "add" /\ ret.err = DuplicateDefinition

\* C9 as claimed: after a successful add the module is found under its
\* source path: getBySource(source) holds it.
C9_IndexedBySource ==
    (ret.op = "add" /\ ret.err = None) =>
        LET found == getBySource(cols[ret.col], heap[ret.val].source)
        IN  found # Undefined /\ \E s \in DOMAIN found : found[s] = ret.val

\* C10 as claimed: clone() succeeds on every graph, orphans included, and
\* the copy has the same names, the same source for each name and the same
\* edges in the same order.
C10_CloneSucceeds ==
    ret.op = "clone" =>
        /\ ret.err = None
        /\ NamesOf(Copy) = NamesOf(Original)
        /\ \A n \in NamesOf(Original) :
              heap[Lookup(heap, cols[Copy].modules, n)].source
                  = heap[Lookup(heap, cols[Original].modules, n)].source
        /\ Len(cols[Copy].dependencies) = Len(cols[Original].dependencies)
        /\ \A i \in 1..Len(cols[Original].dependencies) :
              /\ heap[cols[Copy].dependencies[i].module].name
                     = heap[cols[Original].dependencies[i].module].name
              /\ heap[cols[Copy].dependencies[i].require].name
                     = heap[cols[Original].dependencies[i].require].name

(***************************************************************************)
(* Properties of clone, analyse and the registry                           *)
(***************************************************************************)
RECURSIVE ReachFrom(_, _)
ReachFrom(h, X) ==
    LET step == X \cup UNION {{h[r].requires[i] : i \in 1..Len(h[r].requires)}
                                 \cup {h[r].dependants[i] : i \in 1..Len(h[r].dependants)} : r \in X}
    IN  IF step = X THEN X ELSE ReachFrom(h, step)

\* Every Module object reachable from a collection: through its registry,
\* its source index and its edges, and from there through requires and
\* dependants.
ObjectsOf(h, col) ==
    ReachFrom(h, {col.modules[i] : i \in 1..Len(col.modules)}
                 \cup {col.dependencies[i].module : i \in 1..Len(col.dependencies)}
                 \cup {col.dependencies[i].require : i \in 1..Len(col.dependencies)}
                 \cup UNION {{col.sources[k][s] : s \in DOMAIN col.sources[k]} : k \in DOMAIN col.sources})

\* C11: once a copy exists, a call on one of the two collections leaves the
\* other as it was: its registry, sources, edges and counts, and every field
\* (adjacency, exports, source, component id, markers) of every Module it
\* reaches.
C11_CloneIndependent ==
    [][\A c \in DOMAIN cols :
          (ret'.col # c /\ ret'.op # "clone") =>
              /\ cols'[c] = cols[c]
              /\ \A r \in ObjectsOf(heap, cols[c]) : r \in DOMAIN heap' /\ heap'[r] = heap[r]
      ]_vars

\* C11 witness: a connect on the copy succeeded, and the copy now has more
\* edges than the original.
C11_Witness ==
    /\ Copy \in DOMAIN cols
    /\ ret.op = "connect" /\ ret.col = Copy /\ ret.err = None
    /\ cols[Copy].numberOfDependencies > cols[Original].numberOfDependencies

InSeq(s, x) == \E i \in 1..Len(s) : s[i] = x

\* The modules of collection c before a step, none if the step made c anew.
ModulesBefore(c) ==
    IF c \in DOMAIN cols /\ ~(c = Copy /\ ret'.op = "clone" /\ ret'.err = None)
    THEN {cols[c].modules[i] : i \in 1..Len(cols[c].modules)}
    ELSE {}

\* C12: what analyse() would report, over every call.  A module that a
\* connect creates is an orphan; a module is an orphan until an add on it
\* succeeds; from that add on it is a defined module and no orphan, and it
\* stays so.
C12_OrphanUntilAdded ==
    [][\A c \in DOMAIN cols' :
          LET after == analyse(heap', cols'[c])
          IN  \A i \in 1..Len(cols'[c].modules) :
                 LET m == cols'[c].modules[i]
                     added == ret'.op = "add" /\ ret'.col = c /\ ret'.err = None /\ ret'.val = m
                 IN  /\ (m \notin ModulesBefore(c) /\ ret'.op = "connect") =>
                            InSeq(after.orphanModules, m) /\ ~InSeq(after.definedModules, m)
                     /\ added =>
                            InSeq(after.definedModules, m) /\ ~InSeq(after.orphanModules, m)
                     /\ (m \in ModulesBefore(c) /\ InSeq(analyse(heap, cols[c]).definedModules, m)) =>
                            InSeq(after.definedModules, m) /\ ~InSeq(after.orphanModules, m)
                     /\ (m \in ModulesBefore(c) /\ InSeq(analyse(heap, cols[c]).orphanModules, m)
                            /\ ~added) =>
                            InSeq(after.orphanModules, m) /\ ~InSeq(after.definedModules, m)
      ]_vars

\* C12 witness: analyse() reported an orphan and a defined module that are
\* the two ends of an edge.
C12_Witness ==
    /\ ret.op = "analyse"
    /\ \E i \in 1..Len(cols[ret.col].dependencies) :
          LET e == cols[ret.col].dependencies[i]
          IN  \/ InSeq(ret.val.orphanModules, e.require) /\ InSeq(ret.val.definedModules, e.module)
              \/ InSeq(ret.val.orphanModules, e.module) /\ InSeq(ret.val.definedModules, e.require)


Occurrences(s, x) == Cardinality({i \in 1..Len(s) : s[i] = x})

\* C13: every analyse() returns two lists in which each registered module
\* occurs exactly once, in definedModules when it has a source and in
\* orphanModules when it has none, and nothing else occurs; numberOfExports
\* is the number of export tags over all modules; and the call changes no
\* module and no field of the collection.
C13_AnalysePartition ==
    [][ret'.op = "analyse" =>
          LET col == cols'[ret'.col]
              stat == ret'.val
              registered == {col.modules[i] : i \in 1..Len(col.modules)}
          IN  /\ \A m \in registered :
                    /\ Occurrences(stat.definedModules, m) + Occurrences(stat.orphanModules, m) = 1
                    /\ InSeq(stat.definedModules, m) <=> heap'[m].source # Undefined
              /\ \A i \in 1..Len(stat.definedModules) : stat.definedModules[i] \in registered
              /\ \A i \in 1..Len(stat.orphanModules) : stat.orphanModules[i] \in registered
              /\ stat.numberOfExports =
                    Cardinality(UNION {{<<m, j>> : j \in 1..Len(heap'[m].exports)} : m \in registered})
              /\ heap' = heap /\ cols' = cols
      ]_vars

\* C13 witness: analyse() reported a defined module, an orphan and three
\* export tags.
C13_Witness ==
    /\ ret.op = "analyse"
    /\ ret.val.definedModules # <<>> /\ ret.val.orphanModules # <<>>
    /\ ret.val.numberOfExports = 3


Registered(c) == {cols[c].modules[i] : i \in 1..Len(cols[c].modules)}

EdgeObjects(c) ==
    {<<cols[c].dependencies[i].module, cols[c].dependencies[i].require>> :
        i \in 1..Len(cols[c].dependencies)}

\* C14: in every state reached by get, add and connect calls, whether they
\* return or throw, B is in A.requires exactly when A is in B.dependants and
\* exactly when the dependency sequence holds the edge (A, B); the two ends
\* of every edge and every entry of requires and dependants are registered
\* modules.
C14_AdjacencySymmetric ==
    \A c \in DOMAIN cols :
        /\ \A e \in EdgeObjects(c) : e[1] \in Registered(c) /\ e[2] \in Registered(c)
        /\ \A A \in Registered(c) :
              /\ \A i \in 1..Len(heap[A].requires) : heap[A].requires[i] \in Registered(c)
              /\ \A i \in 1..Len(heap[A].dependants) : heap[A].dependants[i] \in Registered(c)
        /\ \A A \in Registered(c), B \in Registered(c) :
              /\ InSeq(heap[A].requires, B) <=> InSeq(heap[B].dependants, A)
              /\ InSeq(heap[A].requires, B) <=> <<A, B>> \in EdgeObjects(c)

\* C14 witness: a connect threw on a collection that holds two edges.
C14_Witness ==
    /\ ret.op = "connect" /\ ret.err # None
    /\ Cardinality(EdgeObjects(ret.col)) = 2


\* C15 as claimed: in every state reached by get, add and connect calls,
\* whether they return or throw, numberOfModules is the number of entries of
\* modules, numberOfDependencies is the length of dependencies, and each
\* module's numberOfRequirements and numberOfDependants are the sizes of its
\* requires and dependants.
C15_CountsAgree ==
    \A c \in DOMAIN cols :
        /\ cols[c].numberOfModules = Len(cols[c].modules)
        /\ cols[c].numberOfDependencies = Len(cols[c].dependencies)
        /\ \A m \in Registered(c) :
              /\ heap[m].numberOfRequirements = Len(heap[m].requires)
              /\ heap[m].numberOfDependants = Len(heap[m].dependants)


\* The names under which collection c registers modules are trimmed, not
\* empty and pairwise different.
NamesWellFormed(c) ==
    /\ \A m \in Registered(c) : heap[m].name = trim(heap[m].name) /\ heap[m].name # <<>>
    /\ \A i, j \in 1..Len(cols[c].modules) :
          heap[cols[c].modules[i]].name = heap[cols[c].modules[j]].name => i = j

\* C16: get with the create flag, add and connect throw TypeError (the
\* spec's InvalidName) when a name is missing or blank, and register nothing
\* for that name; registered names are trimmed, not empty and unique; after
\* a get-or-create, every name with the same trimmed text resolves to the
\* module it returned; get without the create flag changes nothing, returns
\* a registered module or nothing, and only throws on a name lib.stringLike
\* rejects.
C16_NamesTrimmedUnique ==
    [][/\ NamesWellFormed(Original)'
       /\ \A n \in RawNames :
             /\ (ret'.op = "get" /\ ~IsName(n) /\ GetCall(Original, n, TRUE)) =>
                    ret'.err = TypeError /\ cols'[Original].modules = cols[Original].modules
             /\ (ret'.op = "add" /\ ~IsName(n) /\ \E s \in RawSources : AddCall(Original, n, s)) =>
                    ret'.err = TypeError /\ cols'[Original].modules = cols[Original].modules
             /\ (ret'.op = "connect" /\ ~IsName(n)
                    /\ \E o \in RawNames : ConnectCall(Original, n, o) \/ ConnectCall(Original, o, n)) =>
                    ret'.err = TypeError
             /\ (ret'.op = "get" /\ IsName(n) /\ GetCall(Original, n, TRUE)) =>
                    /\ ret'.err = None /\ ret'.val \in Registered(Original)'
                    /\ heap'[ret'.val].name = trim(n)
                    /\ \A o \in RawNames : (IsName(o) /\ trim(o) = trim(n)) =>
                          \A anyway \in BOOLEAN :
                              LET again == get(Start(heap', cols'[Original], Original), o, anyway)
                              IN  again.err = None /\ again.val = ret'.val
                                     /\ again.col = cols'[Original]
             /\ (ret'.op = "get" /\ GetCall(Original, n, FALSE)) =>
                    /\ heap' = heap /\ cols' = cols
                    /\ ret'.err = None => ret'.val = NoRef \/ ret'.val \in Registered(Original)
                    /\ ret'.err # None => ret'.err = TypeError /\ stringLikeThrows(n)
      ]_vars

\* C16 witness: a get threw TypeError on a collection that holds two modules.
C16_Witness ==
    /\ ret.op = "get" /\ ret.err = TypeError
    /\ Len(cols[Original].modules) = 2


\* C18 as claimed: an add or a connect that throws leaves the registered
\* modules, numberOfModules, sources, the edge sequence and every module's
\* requires and dependants as they were, and leaves no module it created.
C18_FailingCallChangesNothing ==
    [][(ret'.op \in {"add", "connect"} /\ ret'.err # None) =>
          /\ cols'[ret'.col].modules = cols[ret'.col].modules
          /\ cols'[ret'.col].numberOfModules = cols[ret'.col].numberOfModules
          /\ cols'[ret'.col].sources = cols[ret'.col].sources
          /\ cols'[ret'.col].dependencies = cols[ret'.col].dependencies
          /\ \A r \in DOMAIN heap : Adjacency(heap', r) = Adjacency(heap, r)
      ]_vars

\* C23: in every state, connect(m, d) for distinct names m and d whose edge
\* (m, d) is not in the graph returns and appends that edge, whether or not
\* the edge (d, m) is there and whether or not the new edge closes a cycle;
\* the cycle error comes from serialize() only.
C23_CycleClosingEdgeAccepted ==
    /\ ret.err = CyclicDependency => ret.op = "serialize"
    /\ \A m \in GraphNames, d \in GraphNames :
          (m # d /\ <<m, d>> \notin EdgesOf(Original)) =>
              LET C == connect(Start(heap, cols[Original], Original), m, d)
              IN  /\ C.err = None
                  /\ Len(C.col.dependencies) = Len(cols[Original].dependencies) + 1
                  /\ C.h[C.val.module].name = m /\ C.h[C.val.require].name = d
                  /\ C.col.dependencies[Len(C.col.dependencies)] = C.val

\* C23 witness: a connect returned an edge from a module that its
\* requirement already reached through other edges.
C23_Witness ==
    /\ ret.op = "connect" /\ ret.err = None
    /\ LET earlier == {<<heap[cols[Original].dependencies[i].module].name,
                         heap[cols[Original].dependencies[i].require].name>> :
                          i \in 1..(Len(cols[Original].dependencies) - 1)}
       IN  heap[ret.val.module].name \in Beyond(earlier, heap[ret.val.require].name)

NoDuplicates(s) == \A i, j \in 1..Len(s) : s[i] = s[j] => i = j

IsPrefix(s, t) == Len(s) <= Len(t) /\ SubSeq(t, 1, Len(s)) = s

\* C24: over every call each module's exports only grows at its end and
\* holds no tag twice; an addExport call changes the exports of one module
\* only; and in every state addExport(meta) on a module leaves its exports
\* as they are when they hold the tag (meta, or the module's name when meta
\* is missing or empty), appends the tag otherwise, changes nothing else,
\* and a second addExport(meta) changes nothing.
C24_ExportsDistinctOrdered ==
    /\ [][/\ \A m \in Registered(Original) : IsPrefix(heap[m].exports, heap'[m].exports)
          /\ ret'.op = "addExport" =>
                /\ cols' = cols
                /\ Cardinality({m \in DOMAIN heap : heap'[m] # heap[m]}) <= 1
                /\ \A m \in DOMAIN heap :
                      heap'[m] = [heap[m] EXCEPT !.exports = heap'[m].exports]
         ]_vars
    /\ [](\A m \in Registered(Original) :
             /\ NoDuplicates(heap[m].exports)
             /\ \A meta \in RawTags \cup {<<>>} :
                   LET tag == IF meta \in {Undefined, <<>>} THEN heap[m].name ELSE meta
                       once == addExport(Start(heap, cols[Original], Original), m, meta)
                       twice == addExport(once, m, meta)
                   IN  /\ once.err = None /\ once.col = cols[Original]
                       /\ once.h[m].exports = IF InSeq(heap[m].exports, tag)
                                              THEN heap[m].exports
                                              ELSE Append(heap[m].exports, tag)
                       /\ once.h = [heap EXCEPT ![m].exports = once.h[m].exports]
                       /\ twice.h = once.h)

\* C24 witness: an addExport call returned on a module that holds three
\* tags, its own name among them.
C24_Witness ==
    /\ ret.op = "addExport"
    /\ \E m \in Registered(Original) :
          Len(heap[m].exports) = 3 /\ InSeq(heap[m].exports, heap[m].name)

\* C27: when clone() returns, every module of the copy has an empty exports
\* list, analyse() on the copy reports numberOfExports = 0, and the exports
\* of the original's modules are as they were.
C27_CloneDropsExports ==
    [][(ret'.op = "clone" /\ ret'.err = None) =>
          /\ \A m \in Registered(Copy)' : heap'[m].exports = <<>>
          /\ analyse(heap', cols'[Copy]).numberOfExports = 0
          /\ \A m \in Registered(Original) :
                m \in DOMAIN heap' /\ heap'[m].exports = heap[m].exports
      ]_vars

\* C27 witness: clone() returned for an original whose two modules carry an
\* export tag each.
C27_Witness ==
    /\ ret.op = "clone" /\ ret.err = None
    /\ Len(cols[Copy].modules) = 2
    /\ analyse(heap, cols[Original]).numberOfExports = 2

\* The lines of a text: the pieces before each line end, the line ends left out.
RECURSIVE SplitLines(_, _, _)
SplitLines(s, current, lines) ==
    IF s = <<>> THEN lines
    ELSE IF Head(s) = EndLine THEN SplitLines(Tail(s), <<>>, Append(lines, current))
    ELSE SplitLines(Tail(s), Append(current, Head(s)), lines)

IsEdgeLine(line) == \E p \in 1..Len(line) : line[p] = Arrow

\* The edge line of x and y, and the node line of x, as SplitLines gives them.
EdgeLine(x, y) == <<Quote>> \o x \o <<Arrow>> \o y

NodeLine(x) == <<Quote>> \o x

BucketNames(bucket) == [i \in 1..Len(bucket) |-> heap[bucket[i]].name]

Declared(c) ==
    /\ EdgesOf(c) = Chains
    /\ \A m \in Registered(c) : defined(heap, m)
    /\ NamesOf(c) = ChainNames

\* C17: once the four modules of the two chains are added and the two edges
\* connected, in whatever order the six calls were made, serialize() returns
\* exactly two buckets, one holding b then a and the other y then x.
C17_TwoChains ==
    (Serialized /\ Declared(ret.col)) =>
        /\ ret.err = None
        /\ Cardinality(DOMAIN ret.val) = 2
        /\ {BucketNames(ret.val[k]) : k \in DOMAIN ret.val}
               = {<<e[2], e[1]>> : e \in Chains}

\* C17 witness: serialize() returned for the two chains declared with the
\* required module of each chain registered first, the chains interleaved.
C17_Witness ==
    /\ Serialized /\ ret.err = None /\ Declared(ret.col)
    /\ heap[cols[ret.col].modules[1]].name = <<"b">>
    /\ heap[cols[ret.col].modules[2]].name = <<"y">>


\* The heap with every module as a graph never serialized has it: no
\* component id and no marker.
NeverSerialized(h) ==
    [r \in DOMAIN h |->
        [h[r] EXCEPT !.index = NoIndex, !.indexing = FALSE, !.sorting = FALSE,
                     !.topologicalMarker = FALSE]]

\* C19: on a graph with no directed cycle every serialize() returns, a
\* second serialize() right after it would return the same buckets in the
\* same order, and what a serialize() returns after earlier runs and further
\* calls is what it returns for the same graph never serialized before.
C19_SerializeRepeatable ==
    [][(ret'.op = "serialize" /\ ~HasCycle(EdgesOf(ret'.col))) =>
          /\ ret'.err = None
          /\ LET again == serialize(Start(heap', cols'[ret'.col], ret'.col))
             IN  again.err = None /\ again.val = ret'.val /\ again.h = heap'
          /\ LET first == serialize(Start(NeverSerialized(heap), cols[ret'.col], ret'.col))
             IN  first.err = None /\ first.val = ret'.val
      ]_vars

\* C19 witness: serialize() returned one bucket of three modules whose
\* first registered module is not the first of the bucket.
C19_Witness ==
    /\ Serialized /\ ret.err = None
    /\ DOMAIN ret.val = {0} /\ Len(ret.val[0]) = 3
    /\ ret.val[0][1] # cols[ret.col].modules[1]


\* The requirements of module m in the order they were connected, read off
\* the edge sequence.
RequirementsOf(c, m) ==
    LET OfM(e) == e.module = m
        edges == SelectSeq(cols[c].dependencies, OfM)
    IN  [i \in 1..Len(edges) |-> edges[i].require]

\* The reference order: depth-first from the modules in registry order, each
\* module after its requirements, which are taken in the order connected.
RECURSIVE Visit(_, _, _)
RECURSIVE VisitEach(_, _, _, _)
Visit(c, done, m) ==
    IF InSeq(done, m) THEN done
    ELSE Append(VisitEach(c, done, RequirementsOf(c, m), 1), m)

VisitEach(c, done, items, i) ==
    IF i > Len(items) THEN done
    ELSE VisitEach(c, Visit(c, done, items[i]), items, i + 1)

ReferenceOrder(c) == VisitEach(c, <<>>, cols[c].modules, 1)

\* C20: on a graph with no directed cycle every registered module is in a
\* bucket, and each bucket lists its modules in the reference order.
C20_DepthFirstPostorder ==
    (Serialized /\ ~HasCycle(GraphOfCall)) =>
        /\ ret.err = None
        /\ \A m \in Registered(ret.col) : Places(ret.val, m) # {}
        /\ \A k \in DOMAIN ret.val :
              LET InBucket(m) == InSeq(ret.val[k], m)
              IN  ret.val[k] = SelectSeq(ReferenceOrder(ret.col), InBucket)

\* C20 witness: serialize() returned for a graph in which a module has two
\* requirements, the second connected one registered before the first.
C20_Witness ==
    /\ Serialized /\ ret.err = None
    /\ \E m \in Registered(ret.col) :
          /\ Len(heap[m].requires) = 2
          /\ \E i, j \in 1..Len(cols[ret.col].modules) :
                /\ i < j
                /\ cols[ret.col].modules[i] = heap[m].requires[2]
                /\ cols[ret.col].modules[j] = heap[m].requires[1]


\* The weakly connected component of the module named n, as a set of names.
ComponentOf(c, n) == {n} \cup Beyond(Undirected(EdgesOf(c)), n)

Components(c) == {ComponentOf(c, n) : n \in NamesOf(c)}

PositionOf(c, m) == CHOOSE i \in 1..Len(cols[c].modules) : cols[c].modules[i] = m

\* The registry position of the earliest created module of a bucket.
FirstCreated(c, bucket) ==
    CHOOSE p \in {PositionOf(c, bucket[i]) : i \in 1..Len(bucket)} :
        \A i \in 1..Len(bucket) : p <= PositionOf(c, bucket[i])

\* C21: when serialize() returns for a graph of k weakly connected
\* components, the buckets are at the positions 0..k-1, none of them empty,
\* each module carries the position of its bucket as component id, each
\* bucket is one whole component, and the buckets follow the registry order
\* of their earliest created modules.
C21_ComponentIds ==
    (Serialized /\ ret.err = None) =>
        /\ DOMAIN ret.val = 0..(Cardinality(Components(ret.col)) - 1)
        /\ \A k \in DOMAIN ret.val :
              /\ ret.val[k] # <<>>
              /\ \A i \in 1..Len(ret.val[k]) : heap[ret.val[k][i]].index = k
              /\ {heap[ret.val[k][i]].name : i \in 1..Len(ret.val[k])}
                     = ComponentOf(ret.col, heap[ret.val[k][1]].name)
        /\ \A k, l \in DOMAIN ret.val :
              k < l => FirstCreated(ret.col, ret.val[k]) < FirstCreated(ret.col, ret.val[l])

\* C21 witness: serialize() returned two buckets for three modules, the
\* first bucket holding the first and the last module of the registry.
C21_Witness ==
    /\ Serialized /\ ret.err = None
    /\ DOMAIN ret.val = {0, 1}
    /\ Len(ret.val[0]) = 2 /\ Len(cols[ret.col].modules) = 3
    /\ InSeq(ret.val[0], cols[ret.col].modules[1])
    /\ InSeq(ret.val[0], cols[ret.col].modules[3])


\* The two-phase algorithm of the specification: index every module not yet
\* indexed, then sort every module not yet sorted.
RECURSIVE IndexAll(_, _, _, _)
IndexAll(h, modules, i, adjacencyPoint) ==
    IF i > Len(modules) THEN h
    ELSE IF ~h[modules[i]].indexing
         THEN IndexAll(collectionAdjacencyIndex(h, modules[i], adjacencyPoint), modules, i + 1,
                       adjacencyPoint + 1)
         ELSE IndexAll(h, modules, i + 1, adjacencyPoint)

RECURSIVE SortAll(_, _, _)
SortAll(T, modules, i) ==
    IF i > Len(modules) \/ T.thrown THEN T
    ELSE SortAll(IF ~T.h[modules[i]].sorting THEN collectionTopoSort(T, modules[i]) ELSE T,
                 modules, i + 1)

TwoPhase(h, modules) ==
    SortAll([h |-> IndexAll(h, modules, 1, 0), sortStack |-> EmptyMap, thrown |-> FALSE,
             named |-> <<>>], modules, 1)

\* C22: on a graph with no directed cycle a serialize() run starts with no
\* module marked as indexed or sorted, so every component id it files a
\* module under is one it assigned itself; and it returns the buckets, and
\* leaves the modules, that indexing all modules first and sorting them
\* afterwards gives.
C22_TwoPhaseEquivalent ==
    [][(ret'.op = "serialize" /\ ~HasCycle(EdgesOf(ret'.col))) =>
          LET modules == cols[ret'.col].modules
              two == TwoPhase(heap, modules)
          IN  /\ \A i \in 1..Len(modules) :
                    ~heap[modules[i]].indexing /\ ~heap[modules[i]].sorting
              /\ ~two.thrown /\ ret'.err = None
              /\ ret'.val = two.sortStack
              /\ heap' = ClearFlags(two.h, modules)
              /\ \A k \in DOMAIN ret'.val : \A i \in 1..Len(ret'.val[k]) :
                    heap'[ret'.val[k][i]].index = k
      ]_vars

\* C22 witness: serialize() returned a bucket whose first module was
\* registered after another module of the bucket: the loop reached it
\* through a module indexed and sorted before its own turn.
C22_Witness ==
    /\ Serialized /\ ret.err = None
    /\ \E k \in DOMAIN ret.val :
          /\ Len(ret.val[k]) = 3
          /\ PositionOf(ret.col, ret.val[k][1]) = 3


\* A Module without its traversal state.
Lasting(module) ==
    [name |-> module.name, source |-> module.source, exports |-> module.exports,
     requires |-> module.requires, numberOfRequirements |-> module.numberOfRequirements,
     dependants |-> module.dependants, numberOfDependants |-> module.numberOfDependants]

\* C26: a serialize() call, returning or throwing, leaves the collection's
\* registry, sources, edge sequence and counts as they were, creates and
\* drops no module, and leaves every module's name, source, exports,
\* requires, dependants and counts as they were.
C26_SerializeFrame ==
    [][ret'.op = "serialize" =>
          /\ cols' = cols
          /\ DOMAIN heap' = DOMAIN heap
          /\ \A r \in DOMAIN heap : Lasting(heap'[r]) = Lasting(heap[r])
      ]_vars

\* C26 witness: serialize() threw on a collection whose modules have
\* sources and export tags.
C26_Witness ==
    /\ Serialized /\ ret.err = CyclicDependency
    /\ cols[ret.col].sources # EmptyMap
    /\ \E m \in Registered(ret.col) : heap[m].exports # <<>> /\ defined(heap, m)


\* C25: a serialize() run that started ends, with the buckets or with the
\* cycle error, on every graph; while it runs no module has its index
\* assigned twice and none is in the buckets twice; and it ends with the
\* heap and the result serialize() has as one call.
C25_SerializeTerminates ==
    /\ Running ~> Serialized
    /\ [](Running =>
             /\ NoDuplicates(ret.run.assigned)
             /\ \A m \in Registered(ret.col) :
                   Cardinality(Places(ret.run.sortStack, m)) <= 1)
    /\ [][(Running /\ ~Running') =>
             LET whole == serialize(Start(ret.run.from, cols[ret.col], ret.col))
             IN  /\ ret' = Result("serialize", ret.col, whole)
                 /\ heap' = whole.h
                 /\ ret'.err \in {None, CyclicDependency}
         ]_Progress

\* C25 witness: a run is three calls deep in collectionTopoSort on a graph
\* on which an earlier run failed.
C25_Witness ==
    /\ Running
    /\ Len(ret.run.stack) = 3
    /\ ret.run.stack[3].fn = "sort"
    /\ \E m \in Registered(ret.col) : ret.run.from[m].indexing

====
